---- MODULE Spec2Model ----
(***************************************************************************)
(* A model of the compact trie of ctrie/__init__.py (class CTrie).         *)
(*                                                                         *)
(* A word is a finite sequence of characters.  A node is a record          *)
(*   [terminal |-> BOOLEAN, _children |-> function from labels to nodes]   *)
(* where _children models the Python dict of the node.  The package        *)
(* targets Python 2.6 .. 3.4, whose dicts iterate in an unspecified order, *)
(* so every loop "for prefix, child in self._children.items()" that stops  *)
(* at its first hit is modelled as a choice among all the entries that     *)
(* would be a hit: the mutating methods return the SET of their possible   *)
(* outcomes (insertion order, the order of Python 3.7+, is one of them).   *)
(***************************************************************************)
EXTENDS Naturals, Sequences, FiniteSets, Bags

\* ------------------------------------------------------------------ bounds
\* Words are written over a two-letter alphabet and have at most MaxLen
\* characters; add is only called on a trie while its len is below MaxWords
\* (MaxOtherWords for the second trie, the right operand of == and -=).
MaxLen == 2
MaxWords == 3
MaxOtherWords == 2

Chars == {"a", "b"}
Words == UNION {[1..n -> Chars] : n \in 0..MaxLen}

\* ------------------------------------------------------- string helpers
\* Python's None, as returned by _cut_prefix: a value that is no word.
None == <<"None">>

\* word[n:]
slice_from(word, n) == SubSeq(word, n + 1, Len(word))

\* word.startswith(prefix)
startswith(word, prefix) ==
    /\ Len(prefix) <= Len(word)
    /\ SubSeq(word, 1, Len(prefix)) = prefix

_cut_prefix(prefix, word) ==
    IF startswith(word, prefix) THEN slice_from(word, Len(prefix)) ELSE None

\* _longuest_common_prefix that never finds a common prefix: no edge is ever
\* split.
_longuest_common_prefix_never(word1, word2) == <<>>

_longuest_common_prefix(word1, word2) ==
    LET m == IF Len(word1) < Len(word2) THEN Len(word1) ELSE Len(word2)
        diff == {i \in 1..m : word1[i] # word2[i]}
        first == CHOOSE i \in diff : \A j \in diff : i <= j
    IN  IF diff # {} THEN SubSeq(word1, 1, first - 1)
        ELSE IF Len(word1) < Len(word2) THEN word1 ELSE word2

\* ------------------------------------------------------------ dict helpers
\* {}
EmptyDict == [k \in {} |-> 0]

\* d[key] = value
DictSet(d, key, value) ==
    [k \in DOMAIN d \cup {key} |-> IF k = key THEN value ELSE d[k]]

\* del d[key]
DictDel(d, key) == [k \in DOMAIN d \ {key} |-> d[k]]

\* ------------------------------------------------------------------ nodes
\* CTrie(terminal=...)
CTrie(terminal) == [terminal |-> terminal, _children |-> EmptyDict]

is_empty(self) == ~(DOMAIN self._children # {} \/ self.terminal)

RECURSIVE __contains__(_, _)
__contains__(self, word) ==
    \/ word = <<>> /\ self.terminal
    \/ \E prefix \in DOMAIN self._children :
          LET trailing == _cut_prefix(prefix, word)
          IN  trailing # None /\ __contains__(self._children[prefix], trailing)

RECURSIVE __len__(_)
RECURSIVE SumLen(_, _)
SumLen(d, keys) ==
    IF keys = {} THEN 0
    ELSE LET k == CHOOSE x \in keys : TRUE
         IN  __len__(d[k]) + SumLen(d, keys \ {k})

__len__(self) ==
    (IF self.terminal THEN 1 ELSE 0) + SumLen(self._children, DOMAIN self._children)

\* ------------------------------------------------------------------- _add
\* The outcome of a mutating method: the node after the call and the value
\* the call returns.
Outcome(node, ret) == [node |-> node, ret |-> ret]

\* Lines 89-93, and 104-107 for the child whose label equals the word.
MarkTerminal(self) ==
    IF ~self.terminal THEN Outcome([self EXCEPT !.terminal = TRUE], TRUE)
    ELSE Outcome(self, FALSE)

\* Split with the slip "new_branch = word": the common prefix is not cut
\* off the new branch.
Split_keeps_word(self, prefix, word) ==
    LET child == self._children[prefix]
        lcp == _longuest_common_prefix(prefix, word)
        origin == slice_from(prefix, Len(lcp))
        middle == [CTrie(FALSE) EXCEPT !._children =
                      DictSet(DictSet(EmptyDict, origin, child),
                              word, CTrie(TRUE))]
    IN  [self EXCEPT !._children = DictSet(DictDel(@, prefix), lcp, middle)]

\* Split with the line "middle._children[origin] = child" forgotten.
Split_drops_child(self, prefix, word) ==
    LET lcp == _longuest_common_prefix(prefix, word)
        new_branch == slice_from(word, Len(lcp))
        middle == [CTrie(FALSE) EXCEPT !._children =
                      DictSet(EmptyDict, new_branch, CTrie(TRUE))]
    IN  [self EXCEPT !._children = DictSet(DictDel(@, prefix), lcp, middle)]

\* Lines 143-152: split the entry `prefix` of self around the word.
Split(self, prefix, word) ==
    LET child == self._children[prefix]
        lcp == _longuest_common_prefix(prefix, word)
        origin == slice_from(prefix, Len(lcp))
        new_branch == slice_from(word, Len(lcp))
        middle == [CTrie(FALSE) EXCEPT !._children =
                      DictSet(DictSet(EmptyDict, origin, child),
                              new_branch, CTrie(TRUE))]
    IN  [self EXCEPT !._children = DictSet(DictDel(@, prefix), lcp, middle)]

RECURSIVE _add(_, _)
_add(self, word) ==
    IF word = <<>> THEN {MarkTerminal(self)}
    ELSE IF DOMAIN self._children = {}
    THEN {Outcome([self EXCEPT !._children = DictSet(@, word, CTrie(TRUE))], TRUE)}
    ELSE
      LET d == self._children
          \* first loop: the entries it can stop at
          hits == {p \in DOMAIN d : p = word \/ _cut_prefix(p, word) # None}
          \* second loop: the entries it can split
          splits == {p \in DOMAIN d : _longuest_common_prefix(p, word) # <<>>}
      IN  IF hits # {}
          THEN UNION {
                 IF p = word
                 THEN LET r == MarkTerminal(d[p])
                      IN  {Outcome([self EXCEPT !._children[p] = r.node], r.ret)}
                 ELSE {Outcome([self EXCEPT !._children[p] = r.node], r.ret) :
                          r \in _add(d[p], _cut_prefix(p, word))}
                 : p \in hits}
          ELSE IF splits # {}
          THEN {Outcome(Split(self, p, word), TRUE) : p \in splits}
          ELSE {Outcome([self EXCEPT !._children = DictSet(@, word, CTrie(TRUE))], TRUE)}

\* ---------------------------------------------------------------- _remove
RECURSIVE _remove(_, _)
\* _remove with the test "if child.is_empty()" forgotten before the del:
\* the child is always detached.
_remove_always_prunes(self, word) ==
    IF word = <<>> THEN {Outcome([self EXCEPT !.terminal = FALSE], TRUE)}
    ELSE
      LET d == self._children
          hits == {p \in DOMAIN d : _cut_prefix(p, word) # None}
      IN  IF hits = {} THEN {Outcome(self, FALSE)}
          ELSE UNION {
                 {Outcome([self EXCEPT !._children = DictDel(@, p)], r.ret) :
                     r \in _remove(d[p], _cut_prefix(p, word))}
                 : p \in hits}

\* _remove with lines 169-170 forgotten: an emptied child is never detached.
_remove_never_prunes(self, word) ==
    IF word = <<>> THEN {Outcome([self EXCEPT !.terminal = FALSE], TRUE)}
    ELSE
      LET d == self._children
          hits == {p \in DOMAIN d : _cut_prefix(p, word) # None}
      IN  IF hits = {} THEN {Outcome(self, FALSE)}
          ELSE UNION {
                 {Outcome([self EXCEPT !._children[p] = r.node], r.ret) :
                     r \in _remove(d[p], _cut_prefix(p, word))}
                 : p \in hits}

_remove(self, word) ==
    IF word = <<>> THEN {Outcome([self EXCEPT !.terminal = FALSE], TRUE)}
    ELSE
      LET d == self._children
          \* the entries the loop can stop at
          hits == {p \in DOMAIN d : _cut_prefix(p, word) # None}
      IN  IF hits = {} THEN {Outcome(self, FALSE)}
          ELSE UNION {
                 {Outcome(IF is_empty(r.node)
                          THEN [self EXCEPT !._children = DictDel(@, p)]
                          ELSE [self EXCEPT !._children[p] = r.node],
                          r.ret) :
                     r \in _remove(d[p], _cut_prefix(p, word))}
                 : p \in hits}

\* ------------------------------------------------------------ add, remove
\* The public methods, called with the tuple `words` of their arguments.
\* add with the slip "ret = ret and self._add(word)": the words after the
\* first one that was already stored are not added.
RECURSIVE add_short_circuit(_, _)
add_short_circuit(self, words) ==
    IF words = <<>> THEN {Outcome(self, TRUE)}
    ELSE UNION {IF r.ret THEN add_short_circuit(r.node, Tail(words))
                ELSE {r}
                : r \in _add(self, Head(words))}

\* Lines 191-195 with `ret` as it stands before the loop visits `words`.
RECURSIVE add_loop(_, _, _)
add_loop(self, words, ret) ==
    IF words = <<>> THEN {Outcome(self, ret)}
    ELSE UNION {add_loop(r.node, Tail(words), ret /\ r.ret)
                : r \in _add(self, Head(words))}

add(self, words) == add_loop(self, words, TRUE)

\* Lines 216-220 with `ret` as it stands before the loop visits `words`.
RECURSIVE remove_loop(_, _, _)
remove_loop(self, words, ret) ==
    IF words = <<>> THEN {Outcome(self, ret)}
    ELSE UNION {remove_loop(r.node, Tail(words), ret /\ r.ret)
                : r \in _remove(self, Head(words))}

remove(self, words) == remove_loop(self, words, TRUE)

\* ----------------------------------------------------------------- height
\* max(...) over a non-empty set of naturals
Max(S) == CHOOSE x \in S : \A y \in S : y <= x

\* height with the slip of counting the characters of the labels instead
\* of the edges.
RECURSIVE height(_)
height_counts_chars(self) ==
    IF DOMAIN self._children = {} THEN 0
    ELSE Max({Len(p) + height(self._children[p]) : p \in DOMAIN self._children})

height(self) ==
    IF DOMAIN self._children = {} THEN 0
    ELSE 1 + Max({height(self._children[p]) : p \in DOMAIN self._children})

\* ----------------------------------------------------------------- values
\* The words the generator yields, as a bag: the number of times each word
\* is yielded (the order of the yields is the dict's, hence unspecified).
Prepend(prefix, bag) ==
    [w \in {prefix \o v : v \in DOMAIN bag} |-> bag[slice_from(w, Len(prefix))]]

RECURSIVE values(_)
RECURSIVE ChildValues(_, _)
ChildValues(d, keys) ==
    IF keys = {} THEN EmptyBag
    ELSE LET k == CHOOSE x \in keys : TRUE
         IN  Prepend(k, values(d[k])) (+) ChildValues(d, keys \ {k})

values(self) ==
    IF is_empty(self) THEN EmptyBag
    ELSE (IF self.terminal THEN SetToBag({<<>>}) ELSE EmptyBag)
         (+) ChildValues(self._children, DOMAIN self._children)

\* ---------------------------------------------------------------- subtree
\* The tries the call can return (one per entry the loop can stop at).
subtree(self, prefix) ==
    LET d == self._children
        hits == {np \in DOMAIN d : _longuest_common_prefix(prefix, np) # <<>>}
    IN  IF prefix = <<>> THEN {self}
        ELSE IF prefix \in DOMAIN d THEN {d[prefix]}
        ELSE IF hits = {} THEN {CTrie(FALSE)}
        ELSE {LET lcp == _longuest_common_prefix(prefix, np)
                  suffix == slice_from(np, Len(lcp))
                  child == [CTrie(FALSE) EXCEPT !._children = d[np]._children]
              IN  [CTrie(FALSE) EXCEPT !._children = DictSet(@, suffix, child)]
              : np \in hits}

\* ----------------------------------------------------- subtree, on objects
\* subtree assigns to attributes and dict entries, and its result can share
\* a dict with the receiver, so here the nodes and their dicts are objects
\* with an address. A node of the receiver has the address <<"self", path>>,
\* path being the labels from the root down to it; the nodes subtree makes
\* have the addresses <<"root", <<>>>>, <<"child", <<>>>> and <<"empty", <<>>>>.
\* The dict a node makes in __init__ has the address of that node.
self_addr == <<"self", <<>>>>
root_addr == <<"root", <<>>>>
child_addr == <<"child", <<>>>>
empty_addr == <<"empty", <<>>>>

RECURSIVE Paths(_)
Paths(node) ==
    {<<>>} \cup UNION {{<<p>> \o q : q \in Paths(node._children[p])}
                        : p \in DOMAIN node._children}

RECURSIVE NodeAt(_, _)
NodeAt(node, path) ==
    IF path = <<>> THEN node
    ELSE NodeAt(node._children[Head(path)], Tail(path))

\* The objects of the trie self: nodes[a] holds the attributes of the node
\* at a (_children is the address of a dict), dicts[a] maps labels to node
\* addresses.
Heap(self) ==
    LET addrs == {<<"self", q>> : q \in Paths(self)}
    IN  [nodes |-> [a \in addrs |->
                      [terminal |-> NodeAt(self, a[2]).terminal,
                       _children |-> a]],
         dicts |-> [a \in addrs |->
                      [p \in DOMAIN NodeAt(self, a[2])._children |->
                          <<"self", Append(a[2], p)>>]]]

\* The trie read back from the objects, from the node at addr down.
RECURSIVE FromHeap(_, _)
FromHeap(heap, addr) ==
    LET d == heap.dicts[heap.nodes[addr]._children]
    IN  [terminal |-> heap.nodes[addr].terminal,
         _children |-> [p \in DOMAIN d |-> FromHeap(heap, d[p])]]

\* addr = CTrie()
New(heap, addr) ==
    [nodes |-> [a \in DOMAIN heap.nodes \cup {addr} |->
                  IF a = addr THEN [terminal |-> FALSE, _children |-> addr]
                  ELSE heap.nodes[a]],
     dicts |-> [a \in DOMAIN heap.dicts \cup {addr} |->
                  IF a = addr THEN EmptyDict ELSE heap.dicts[a]]]

\* owner._children[key] = value
SetItem(heap, owner, key, value) ==
    [heap EXCEPT !.dicts[heap.nodes[owner]._children] = DictSet(@, key, value)]

\* owner._children = donor._children
SetChildren(heap, owner, donor) ==
    [heap EXCEPT !.nodes[owner]._children = heap.nodes[donor]._children]

\* Lines 317-324 for the entry node_prefix, with line 322 written
\* "self._children[suffix] = child": the receiver is stripped in place.
subtree_branch_in_place(heap, self, prefix, node_prefix) ==
    LET node == heap.dicts[heap.nodes[self]._children][node_prefix]
        lcp == _longuest_common_prefix(prefix, node_prefix)
        suffix == slice_from(node_prefix, Len(lcp))
        made == New(New(heap, root_addr), child_addr)
    IN  [heap |-> SetChildren(SetItem(made, self, suffix, child_addr),
                              child_addr, node),
         ret |-> root_addr]

\* Lines 317-324 for the entry node_prefix.
subtree_branch(heap, self, prefix, node_prefix) ==
    LET node == heap.dicts[heap.nodes[self]._children][node_prefix]
        lcp == _longuest_common_prefix(prefix, node_prefix)
        suffix == slice_from(node_prefix, Len(lcp))
        made == New(New(heap, root_addr), child_addr)
    IN  [heap |-> SetChildren(SetItem(made, root_addr, suffix, child_addr),
                              child_addr, node),
         ret |-> root_addr]

\* The call self.subtree(prefix) on the objects: the objects after it and
\* the address it returns, one outcome per entry the loop can stop at.
subtree_objects(heap, self, prefix) ==
    LET d == heap.dicts[heap.nodes[self]._children]
        hits == {np \in DOMAIN d : _longuest_common_prefix(prefix, np) # <<>>}
    IN  IF prefix = <<>> THEN {[heap |-> heap, ret |-> self]}
        ELSE IF prefix \in DOMAIN d THEN {[heap |-> heap, ret |-> d[prefix]]}
        ELSE IF hits = {}
        THEN {[heap |-> New(heap, empty_addr), ret |-> empty_addr]}
        ELSE {subtree_branch(heap, self, prefix, np) : np \in hits}

\* ------------------------------------------------------ equality, set ops
__eq__(self, other) ==
    /\ \A word \in BagToSet(values(self)) : __contains__(other, word)
    /\ \A word \in BagToSet(values(other)) : __contains__(self, word)

\* The tries self can be after "for word in <bag>: self._remove(word)", the
\* words of the bag being visited in any order.
RECURSIVE RemoveAll(_, _)
RemoveAll(self, bag) ==
    IF DOMAIN bag = {} THEN {self}
    ELSE UNION {
           LET left == [w \in {v \in DOMAIN bag : v # word \/ bag[v] > 1} |->
                           IF w = word THEN bag[w] - 1 ELSE bag[w]]
           IN  UNION {RemoveAll(r.node, left) : r \in _remove(self, word)}
           : word \in DOMAIN bag}

__isub__(self, other) == RemoveAll(self, values(other))

\* The tries self can be after "for word in <bag>: self._add(word)", the
\* words of the bag being visited in any order.
RECURSIVE AddAll(_, _)
AddAll(self, bag) ==
    IF DOMAIN bag = {} THEN {self}
    ELSE UNION {
           LET left == [w \in {v \in DOMAIN bag : v # word \/ bag[v] > 1} |->
                           IF w = word THEN bag[w] - 1 ELSE bag[w]]
           IN  UNION {AddAll(r.node, left) : r \in _add(self, word)}
           : word \in DOMAIN bag}

\* __iadd__ with the slip "return self" inside the loop: only the first
\* word other yields is added.
__iadd___first_only(self, other) ==
    LET bag == values(other)
    IN  IF DOMAIN bag = {} THEN {self}
        ELSE UNION {{r.node : r \in _add(self, word)} : word \in DOMAIN bag}

__iadd__(self, other) == AddAll(self, values(other))

__ior__(self, other) == __iadd__(self, other)

\* Lines 451-455: the words self yields that other does not contain, each
\* as many times as it is yielded.
words_to_remove(self, other) ==
    LET bag == values(self)
    IN  [w \in {v \in DOMAIN bag : ~__contains__(other, v)} |-> bag[w]]

__iand__(self, other) == RemoveAll(self, words_to_remove(self, other))

\* ------------------------------------------------------------------ state
\* ct    : the trie under test (its root node);
\* other : a second, distinct trie, the right operand of ==, -=, &=, +=.
VARIABLES ct, other

vars == <<ct, other>>

\* The argument tuples of the calls add(*words) and remove(*words): no
\* argument, one word, two words.
Batches ==
    {<<>>} \cup {<<w>> : w \in Words} \cup {<<v, w>> : v \in Words, w \in Words}

\* The set of words a trie holds.
Held(t) == {w \in Words : __contains__(t, w)}

Init ==
    /\ ct = CTrie(FALSE)
    /\ other = CTrie(FALSE)

\* ct.add(word)
Add ==
    /\ __len__(ct) < MaxWords
    /\ \E word \in Words : \E r \in _add(ct, word) : ct' = r.node
    /\ UNCHANGED other

\* ct.remove(word)
Remove ==
    /\ \E word \in Words : \E r \in _remove(ct, word) : ct' = r.node
    /\ UNCHANGED other

\* other.add(word)
AddOther ==
    /\ __len__(other) < MaxOtherWords
    /\ \E word \in Words : \E r \in _add(other, word) : other' = r.node
    /\ UNCHANGED ct

\* other.remove(word)
RemoveOther ==
    /\ \E word \in Words : \E r \in _remove(other, word) : other' = r.node
    /\ UNCHANGED ct

\* ct -= other
ISub ==
    /\ \E r \in __isub__(ct, other) : ct' = r
    /\ UNCHANGED other

\* ct &= other
IAnd ==
    /\ \E r \in __iand__(ct, other) : ct' = r
    /\ UNCHANGED other

\* ct += other
IAdd ==
    /\ __len__(ct) + __len__(other) <= MaxWords
    /\ \E r \in __iadd__(ct, other) : ct' = r
    /\ UNCHANGED other

\* One trie, reached from the empty trie by add and remove calls.
Next == Add \/ Remove

Spec == Init /\ [][Next]_vars

\* ct.add(*words)
AddWords ==
    /\ __len__(ct) < MaxWords
    /\ \E words \in Batches : \E r \in add(ct, words) : ct' = r.node
    /\ UNCHANGED other

\* ct.remove(*words)
RemoveWords ==
    /\ \E words \in Batches : \E r \in remove(ct, words) : ct' = r.node
    /\ UNCHANGED other

\* One trie, built from the empty trie by add calls only.
NextAdd == Add \/ AddWords

SpecAdd == Init /\ [][NextAdd]_vars

\* One trie, reached from the empty trie by add(*words) and remove(*words).
NextBatch == AddWords \/ RemoveWords

SpecBatch == Init /\ [][NextBatch]_vars

\* The frame of one call: the same single-word calls, taken in any order.
NextFrame == Remove \/ Add

SpecFrame == Init /\ [][NextFrame]_vars

\* Two tries, each reached by add and remove calls, and the in-place set
\* operations of ct with other.
NextPair == Add \/ Remove \/ AddOther \/ RemoveOther \/ ISub \/ IAnd \/ IAdd

SpecPair == Init /\ [][NextPair]_vars

\* ----------------------------------------------------------------- claims
\* `word` is a proper prefix of one of the labels of the root.
CutsALabel(t, word) ==
    /\ word # <<>>
    /\ \E p \in DOMAIN t._children : p # word /\ startswith(p, word)

\* C1: after remove(w) returns, contains(w) is false, for every word w and
\* every trie reached by add and remove calls.
RemoveThenAbsent ==
    \A word \in Words : \A r \in _remove(ct, word) :
        ~__contains__(r.node, word)

\* C2: after add(w) returns, contains(w) is true, for every word w and
\* every trie reached by add and remove calls.
AddThenContains ==
    \A word \in Words : \A r \in _add(ct, word) :
        __contains__(r.node, word)

\* C2 (witness): a word that is a proper prefix of a stored label, and not
\* yet stored, is added (the split whose new branch is the empty label) and
\* is found afterwards, as is the longer word.
AddedPrefixOfStoredWord ==
    \E word \in Words : \E r \in _add(ct, word) :
        /\ CutsALabel(ct, word)
        /\ ~__contains__(ct, word)
        /\ r.ret
        /\ __contains__(r.node, word)
        /\ \E longer \in Held(ct) :
              /\ Len(longer) > Len(word)
              /\ startswith(longer, word)
              /\ __contains__(r.node, longer)

\* C3: add(w) returns true if and only if contains(w) was false before the
\* call.
AddReturnsTrueIffAbsent ==
    \A word \in Words : \A r \in _add(ct, word) :
        r.ret <=> ~__contains__(ct, word)

\* C4: remove(w) returns true if and only if contains(w) was true before
\* the call.
RemoveReturnsTrueIffPresent ==
    \A word \in Words : \A r \in _remove(ct, word) :
        r.ret <=> __contains__(ct, word)

\* C5: len(trie) is the number of distinct words the trie contains.
LenCountsDistinctWords == __len__(ct) = Cardinality(Held(ct))

\* C6: values() yields every word the trie contains exactly once, and no
\* other word.
ValuesYieldsEachWordOnce ==
    /\ BagToSet(values(ct)) = Held(ct)
    /\ \A word \in BagToSet(values(ct)) : CopiesIn(word, values(ct)) = 1

\* C7: the words of subtree(prefix) are exactly the s for which prefix + s
\* is a word of the receiver.
SubtreeHoldsTheSuffixes ==
    \A prefix \in Words : \A sub \in subtree(ct, prefix) :
        \A s \in Words :
            __contains__(sub, s) <=> __contains__(ct, prefix \o s)

\* C8: when no stored word starts with prefix, subtree(prefix) is an empty
\* trie: is_empty() is true and values() yields nothing.
SubtreeOfUnmatchedPrefixIsEmpty ==
    \A prefix \in Words :
        (\A word \in Held(ct) : ~startswith(word, prefix)) =>
            \A sub \in subtree(ct, prefix) :
                is_empty(sub) /\ BagToSet(values(sub)) = {}

\* C9: t1 == t2 if and only if both hold the same words; == is reflexive
\* and symmetric; and a trie to which an extra word is added and then
\* removed again equals the trie holding the remaining words.
EqIsExtensional ==
    /\ __eq__(ct, other) <=> (Held(ct) = Held(other))
    /\ __eq__(ct, ct)
    /\ __eq__(ct, other) <=> __eq__(other, ct)
    /\ \A extra \in Words \ Held(ct) :
          \A added \in _add(ct, extra) : \A removed \in _remove(added.node, extra) :
              __eq__(removed.node, ct)

\* What holds of == on every pair of tries: it compares the sets of words
\* the two tries contain, whatever their shapes.
EqComparesContainedWords ==
    /\ __eq__(ct, other) <=> (Held(ct) = Held(other))
    /\ __eq__(ct, ct)
    /\ __eq__(ct, other) <=> __eq__(other, ct)

\* C10: after t1 -= t2 the words of t1 are exactly the words it held before
\* minus the words of t2.
ISubLeavesTheDifference ==
    \A r \in __isub__(ct, other) : Held(r) = Held(ct) \ Held(other)

\* C11: after t1 &= t2 the words of t1 are exactly the words it held before
\* that t2 holds too.
IAndLeavesTheIntersection ==
    \A r \in __iand__(ct, other) : Held(r) = Held(ct) \cap Held(other)

\* C12: after t1 += t2 (t1 |= t2) the words of t1 are exactly the words it
\* held before together with the words of t2.
IAddLeavesTheUnion ==
    /\ \A r \in __iadd__(ct, other) : Held(r) = Held(ct) \cup Held(other)
    /\ \A r \in __ior__(ct, other) : Held(r) = Held(ct) \cup Held(other)
    \* t2 a sequence of words: the same loop over its elements
    /\ \A words \in Batches :
          LET elements == {words[i] : i \in DOMAIN words}
              bag == [w \in elements |->
                         Cardinality({i \in DOMAIN words : words[i] = w})]
          IN  \A r \in AddAll(ct, bag) : Held(r) = Held(ct) \cup elements

\* C12 (witness): both tries hold a word the other lacks, one of them a
\* proper prefix of a label of ct, and the union holds them all.
IAddOfOverlappingTries ==
    \E r \in __iadd__(ct, other) :
        /\ Held(ct) \ Held(other) # {}
        /\ \E word \in Held(other) \ Held(ct) : CutsALabel(ct, word)
        /\ Held(r) = Held(ct) \cup Held(other)

\* The length of the longest word the trie holds (0 when it holds none).
LongestWord(t) == Max({0} \cup {Len(w) : w \in Held(t)})

\* C13: in a trie built by add calls, height() is at most the length of
\* the longest stored word.
HeightAtMostLongestWord == height(ct) <= LongestWord(ct)

\* The words of S are non-empty and no two of them start with the same
\* character.
FlatFanOut(S) ==
    /\ \A w \in S : w # <<>>
    /\ \A v, w \in S : v # w => v[1] # w[1]

\* C14 as stated: height() is 0 for the empty trie and for a trie built
\* from non-empty words that all diverge at their first character.
FlatTrieHasHeightZero == FlatFanOut(Held(ct)) => height(ct) = 0

\* C14 as amended: height() is 0 for the empty trie and 1 for a trie built
\* from one or more non-empty words that all diverge at their first
\* character.
FlatTrieHasHeightOne ==
    FlatFanOut(Held(ct)) => height(ct) = (IF Held(ct) = {} THEN 0 ELSE 1)

\* C14 (witness): a trie built from two words that diverge at their first
\* character, one of them longer than one character.
TwoDivergingWordsAdded ==
    /\ FlatFanOut(Held(ct))
    /\ Cardinality(Held(ct)) = 2
    /\ \E w \in Held(ct) : Len(w) > 1
    /\ height(ct) = 1

\* C15: on an empty trie add(w) returns true, then contains(w) is true and
\* len is 1, then remove(w) returns true, contains(w) is false and the trie
\* is empty again, for every word w.
AddThenRemoveOnEmptyTrie ==
    is_empty(ct) =>
        \A word \in Words : \A added \in _add(ct, word) :
            /\ added.ret
            /\ __contains__(added.node, word)
            /\ __len__(added.node) = 1
            /\ \A removed \in _remove(added.node, word) :
                  /\ removed.ret
                  /\ ~__contains__(removed.node, word)
                  /\ is_empty(removed.node)

\* C15 (witness): on an empty trie a word of full length and the empty
\* word both make the round trip through a non-empty trie.
EmptyTrieRoundTrip ==
    /\ is_empty(ct)
    /\ \E word \in Words : \E added \in _add(ct, word) :
          \E removed \in _remove(added.node, word) :
              /\ Len(word) = MaxLen
              /\ added.ret /\ removed.ret
              /\ ~is_empty(added.node)
              /\ is_empty(removed.node)
    /\ \E added \in _add(ct, <<>>) : \E removed \in _remove(added.node, <<>>) :
          added.node.terminal /\ is_empty(removed.node)

\* C16: the batch forms add(w1, ..., wn) and remove(w1, ..., wn) apply the
\* single-word operation to every argument in order, also after a false
\* result, and return the conjunction of the per-word results; with no
\* argument they return true and leave the trie unchanged.
BatchAppliesEveryWordInOrder ==
    /\ add(ct, <<>>) = {Outcome(ct, TRUE)}
    /\ remove(ct, <<>>) = {Outcome(ct, TRUE)}
    /\ \A w \in Words :
          /\ add(ct, <<w>>) = _add(ct, w)
          /\ remove(ct, <<w>>) = _remove(ct, w)
    /\ \A v \in Words : \A w \in Words :
          /\ add(ct, <<v, w>>) =
                UNION {{Outcome(r2.node, r1.ret /\ r2.ret) :
                           r2 \in _add(r1.node, w)} : r1 \in _add(ct, v)}
          /\ remove(ct, <<v, w>>) =
                UNION {{Outcome(r2.node, r1.ret /\ r2.ret) :
                           r2 \in _remove(r1.node, w)} : r1 \in _remove(ct, v)}

\* C16 (witness): a batch whose first word gives a false result still
\* applies its second word, and returns false.
BatchGoesOnAfterAFalseResult ==
    \E v \in Held(ct) : \E w \in Words \ Held(ct) :
        /\ \A r1 \in _add(ct, v) : ~r1.ret
        /\ \E r \in add(ct, <<v, w>>) : ~r.ret /\ __contains__(r.node, w)
        /\ \A r1 \in _remove(ct, w) : ~r1.ret
        /\ \E r \in remove(ct, <<w, v>>) : ~r.ret /\ ~__contains__(r.node, v)

\* C17: every edge label in every node of a trie reachable by add and
\* remove calls is a non-empty string, so at most one child label of a node
\* is a prefix of a given residual word.
RECURSIVE NoEmptyLabel(_)
NoEmptyLabel(node) ==
    /\ <<>> \notin DOMAIN node._children
    /\ \A p \in DOMAIN node._children : NoEmptyLabel(node._children[p])

RECURSIVE OnePrefixLabelPerWord(_)
OnePrefixLabelPerWord(node) ==
    /\ \A word \in Words :
          Cardinality({p \in DOMAIN node._children : startswith(word, p)}) <= 1
    /\ \A p \in DOMAIN node._children :
          OnePrefixLabelPerWord(node._children[p])

LabelsAreNonEmpty == NoEmptyLabel(ct) /\ OnePrefixLabelPerWord(ct)

\* C18: in every trie reachable by add and remove calls, no two child
\* labels of the same node start with the same character, that is, share a
\* non-empty common prefix.
RECURSIVE Compacted(_)
Compacted(node) ==
    /\ \A p \in DOMAIN node._children : \A q \in DOMAIN node._children :
          (p # q /\ p # <<>> /\ q # <<>>) => p[1] # q[1]
    /\ \A p \in DOMAIN node._children : Compacted(node._children[p])

SiblingLabelsShareNoPrefix == Compacted(ct)

\* C18 (witness): an edge was split, and both the root and the node made by
\* the split have two children.
SplitNodeBesideASibling ==
    /\ Cardinality(DOMAIN ct._children) = 2
    /\ \E p \in DOMAIN ct._children :
          /\ ~ct._children[p].terminal
          /\ Cardinality(DOMAIN ct._children[p]._children) = 2
          /\ <<>> \notin DOMAIN ct._children[p]._children

\* C19: remove(w) on a trie that does not contain w leaves the trie
\* unchanged: the same nodes, labels and terminal flags, hence the same
\* stored words and the same len.
RemoveOfAbsentWordChangesNothing ==
    \A word \in Words :
        ~__contains__(ct, word) =>
            \A r \in _remove(ct, word) :
                /\ r.node = ct
                /\ __len__(r.node) = __len__(ct)

\* C19 (witness): the removal of an absent word walks down an edge of a
\* trie of several words before it fails, and changes nothing.
RemoveOfAbsentWordBelowAnEdge ==
    \E word \in Words : \E p \in DOMAIN ct._children :
        /\ ~__contains__(ct, word)
        /\ p # word /\ p # <<>> /\ startswith(word, p)
        /\ __len__(ct) > 1
        /\ \A r \in _remove(ct, word) : r.node = ct

\* C20: add(w) and remove(w) change the membership of no word other than
\* w, also when add splits an edge and when remove detaches an emptied
\* child.
OtherWordsKeepTheirMembership ==
    LET before == Held(ct)
        \* a call that changes no node changes no membership
        Kept(r, word) ==
            r.node = ct \/ Held(r.node) \ {word} = before \ {word}
    IN  \A word \in Words :
            /\ \A r \in _add(ct, word) : Kept(r, word)
            /\ \A r \in _remove(ct, word) : Kept(r, word)

\* C20 (witness): one add splits an edge and one remove detaches an emptied
\* child, and the other words stay.
SplitAndPruneKeepOtherWords ==
    /\ \E word \in Words \ Held(ct) : \E r \in _add(ct, word) :
          /\ CutsALabel(ct, word)
          /\ Held(r.node) = Held(ct) \cup {word}
          /\ Held(ct) # {}
    /\ \E word \in Held(ct) : \E r \in _remove(ct, word) :
          /\ Cardinality(DOMAIN r.node._children)
                < Cardinality(DOMAIN ct._children)
          /\ Held(r.node) = Held(ct) \ {word}
          /\ Held(r.node) # {}

\* C21: in every trie reached from an empty trie by add and remove calls no
\* non-root node is empty (each is terminal or has a child); hence
\* is_empty() of the root is true if and only if len is 0.
RECURSIVE NoEmptyNodeBelow(_)
NoEmptyNodeBelow(node) ==
    \A p \in DOMAIN node._children :
        LET child == node._children[p]
        IN  /\ child.terminal \/ DOMAIN child._children # {}
            /\ NoEmptyNodeBelow(child)

NoNonRootNodeIsEmpty ==
    /\ NoEmptyNodeBelow(ct)
    /\ is_empty(ct) <=> __len__(ct) = 0

RECURSIVE NodeCount(_)
NodeCount(node) ==
    LET d == node._children
        count[keys \in SUBSET DOMAIN d] ==
            IF keys = {} THEN 0
            ELSE LET k == CHOOSE x \in keys : TRUE
                 IN  NodeCount(d[k]) + count[keys \ {k}]
    IN  1 + count[DOMAIN d]

\* C21 (witness): a trie of several words from which one remove detaches
\* an emptied node two edges below the root, leaving no empty node, and
\* another remove detaches a child of the root.
RemoveDetachesEmptiedNodes ==
    /\ __len__(ct) > 1
    /\ \E word \in Held(ct) : \E r \in _remove(ct, word) :
          /\ r.ret
          /\ NodeCount(r.node) < NodeCount(ct)
          /\ DOMAIN r.node._children = DOMAIN ct._children
          /\ NoEmptyNodeBelow(r.node)
    /\ \E word \in Held(ct) : \E r \in _remove(ct, word) :
          /\ r.ret
          /\ DOMAIN r.node._children # DOMAIN ct._children
          /\ NoEmptyNodeBelow(r.node) /\ ~is_empty(r.node)

\* C22: subtree(prefix) does not modify the receiver: for every prefix the
\* node and dict objects of the receiver are the same before and after the
\* call (nodes, labels, terminal flags, hence the words), and the trie
\* returned is the one subtree is to return.
SubtreeLeavesTheReceiver ==
    LET before == Heap(ct)
    IN  \A prefix \in Words :
            \A o \in subtree_objects(before, self_addr, prefix) :
                /\ \A a \in DOMAIN before.nodes :
                      /\ o.heap.nodes[a] = before.nodes[a]
                      /\ o.heap.dicts[a] = before.dicts[a]
                /\ FromHeap(o.heap, self_addr) = ct
                /\ FromHeap(o.heap, o.ret) \in subtree(ct, prefix)

\* C22 (witness): a call that builds a new root and child, the child
\* sharing the non-empty dict of a node of the receiver, and leaves the
\* receiver as it was.
SubtreeSharesADict ==
    LET before == Heap(ct)
    IN  \E prefix \in Words :
            \E o \in subtree_objects(before, self_addr, prefix) :
                /\ o.ret = root_addr
                /\ o.heap.nodes[child_addr]._children \in DOMAIN before.dicts
                /\ DOMAIN o.heap.dicts[o.heap.nodes[child_addr]._children] # {}
                /\ FromHeap(o.heap, self_addr) = ct
====
